---- MODULE Spec2Model ----
(***************************************************************************)
(* NASA Exoplanet Discovery Explorer.                                      *)
(*                                                                         *)
(*   data_fetcher.py     fetch -> clean -> save exoplanet_data.csv          *)
(*   data_extraction.py  a second, stand-alone cleaning function            *)
(*   database_setup.py   create schema -> load CSV -> verify -> close       *)
(*   App.py              the dashboard; the Explorer page builds its SQL    *)
(*                                                                         *)
(* Units: radii are in hundredths of an Earth radius (1.25 is 125),       *)
(* temperatures in kelvin, periods in days, years as integers.             *)
(***************************************************************************)
EXTENDS Integers, Sequences, FiniteSets, TLC

VARIABLES
    response,     \* what the NASA archive will answer to the fetcher's request
    pc,           \* position of data_fetcher.main / of the extraction call
    raw_df,       \* the fetched table (a sequence of rows)
    clean_df,     \* the cleaned table
    csv_file,     \* contents of exoplanet_data.csv, or Absent
    csv_loads,    \* times insert_data_from_csv has loaded the file as it is now: 0, 1, 2 (twice or more)
    db_pc,        \* position of database_setup.main
    planets_inserted, \* insert_data_from_csv: rows counted as inserted
    planets_skipped,  \* insert_data_from_csv: rows counted as skipped
    insert_failed,    \* index of the CSV row whose INSERT raised in this load, 0 if none
    planets,      \* exoplanets.db: the planets table
    stars,        \* exoplanets.db: the stars table
    systems,      \* exoplanets.db: the systems table
    filters,      \* the Explorer page's widget values
    sql_text,     \* text of the statement the Explorer page sent last
    sql_params,   \* parameters bound to that statement
    prev_sql,     \* text of the statement the Explorer page sent before that
    results       \* rows load_data_cached returned to the Explorer page

fetcherVars == <<response, pc, raw_df, clean_df>>

counters == <<planets_inserted, planets_skipped, insert_failed>>

dbVars == <<csv_loads, db_pc, counters, planets, stars, systems>>

explorerVars == <<filters, sql_text, sql_params, prev_sql, results>>

vars == <<fetcherVars, csv_file, dbVars, explorerVars>>

---------------------------------------------------------------------------
(* Cells.  A numeric column holds numbers, NaN, or (before coercion)       *)
(* strings; a text column holds strings or None.                           *)

NaN == [k |-> "nan", v |-> 0]

Num(x) == [k |-> "num", v |-> x]

\* a string that spells a number, such as "365"
NumStr(x) == [k |-> "numstr", v |-> x]

\* a string that spells no number, such as "abc"
Text == [k |-> "text", v |-> 0]

None == "<None>"

\* pandas.isna of a numeric-column cell / of a text-column cell
IsNaN(c) == c.k = "nan"

IsNone(s) == s = None

\* pd.to_numeric(col, errors='coerce'): numbers stay, numeric strings are
\* parsed, anything else becomes NaN
ToNumeric(c) ==
    CASE c.k = "num" -> c
      [] c.k = "numstr" -> Num(c.v)
      [] OTHER -> NaN

\* comparisons of a pandas Series element: a NaN, or any comparison with a
\* NaN, is False
Ge(c, x) == c.k = "num" /\ c.v >= x

Le(c, x) == c.k = "num" /\ c.v <= x

Lt(c, x) == c.k = "num" /\ c.v < x

---------------------------------------------------------------------------
(* data_fetcher.calculate_habitability_score                                *)

RadiusPoints == 35

TemperaturePoints == 40

PeriodPoints == 25

RadiusLow == 50

RadiusHigh == 200

TemperatureLow == 200

TemperatureHigh == 350

PeriodLow == 200

PeriodHigh == 500

\* mask.astype(int)
AsInt(b) == IF b THEN 1 ELSE 0

\* as RadiusMask with the bounds excluded
RadiusMaskExclusive(r) ==
    r.pl_rade.k = "num" /\ r.pl_rade.v > RadiusLow /\ r.pl_rade.v < RadiusHigh

RadiusMask(r) == Ge(r.pl_rade, RadiusLow) /\ Le(r.pl_rade, RadiusHigh)

TemperatureMask(r) == Ge(r.pl_eqt, TemperatureLow) /\ Le(r.pl_eqt, TemperatureHigh)

PeriodMask(r) == Ge(r.pl_orbper, PeriodLow) /\ Le(r.pl_orbper, PeriodHigh)

\* as calculate_habitability_score with the temperature points added for
\* the period as well
ScorePeriodAsTemperature(r) ==
    AsInt(RadiusMask(r)) * RadiusPoints
    + AsInt(TemperatureMask(r)) * TemperaturePoints
    + AsInt(PeriodMask(r)) * TemperaturePoints

calculate_habitability_score(r) ==
    LET s0 == 0
        s1 == s0 + AsInt(RadiusMask(r)) * RadiusPoints
        s2 == s1 + AsInt(TemperatureMask(r)) * TemperaturePoints
        s3 == s2 + AsInt(PeriodMask(r)) * PeriodPoints
    IN  s3

---------------------------------------------------------------------------
(* data_fetcher.classify_planet_type: five Series.where rules applied one   *)
(* after the other to a Series that starts as 'Unknown'.                    *)

SuperEarthMin == 125

MiniNeptuneMin == 200

NeptuneMin == 400

JupiterMin == 1000

\* as RuleMask with the upper bounds left out
RuleMaskOpenEnded(i, c) ==
    CASE i = 1 -> Lt(c, SuperEarthMin) /\ ~IsNaN(c)
      [] i = 2 -> Ge(c, SuperEarthMin)
      [] i = 3 -> Ge(c, MiniNeptuneMin)
      [] i = 4 -> Ge(c, NeptuneMin)
      [] i = 5 -> Ge(c, JupiterMin)

\* the condition of rule i on radius c
RuleMask(i, c) ==
    CASE i = 1 -> Lt(c, SuperEarthMin) /\ ~IsNaN(c)
      [] i = 2 -> Ge(c, SuperEarthMin) /\ Lt(c, MiniNeptuneMin)
      [] i = 3 -> Ge(c, MiniNeptuneMin) /\ Lt(c, NeptuneMin)
      [] i = 4 -> Ge(c, NeptuneMin) /\ Lt(c, JupiterMin)
      [] i = 5 -> Ge(c, JupiterMin)

RuleLabel(i) ==
    CASE i = 1 -> "Rocky (Earth-like)"
      [] i = 2 -> "Super-Earth"
      [] i = 3 -> "Mini-Neptune"
      [] i = 4 -> "Neptune-like"
      [] i = 5 -> "Jupiter-like"

\* planet_type.where(~mask, label): the label where the mask holds
Where(current, i, c) == IF RuleMask(i, c) THEN RuleLabel(i) ELSE current

RECURSIVE ApplyRules(_, _, _)
\* the rules of `order`, applied left to right
ApplyRules(order, current, c) ==
    IF order = <<>>
    THEN current
    ELSE ApplyRules(Tail(order), Where(current, Head(order), c), c)

CodeOrder == <<1, 2, 3, 4, 5>>

classify_planet_type(r) == ApplyRules(CodeOrder, "Unknown", r.pl_rade)

---------------------------------------------------------------------------
(* data_fetcher.clean_exoplanet_data: pd.cut for the discovery era, with    *)
(* right-closed bins (0,2000], (2000,2010], (2010,2015], (2015,2020],       *)
(* (2020,2030]; a year in no bin, or a NaN, gets no label.                  *)

EraBins == <<0, 2000, 2010, 2015, 2020, 2030>>

EraLabels == <<"Pre-2000", "2000s", "2010-2015", "2015-2020", "2020+">>

Cut(c, bins, labels) ==
    IF \E i \in 1..Len(labels) : c.k = "num" /\ bins[i] < c.v /\ c.v <= bins[i + 1]
    THEN labels[CHOOSE i \in 1..Len(labels) :
                    c.k = "num" /\ bins[i] < c.v /\ c.v <= bins[i + 1]]
    ELSE None

---------------------------------------------------------------------------
(* Tables are sequences of rows.  A raw row has the columns the claims     *)
(* read: pl_name, hostname, disc_year, pl_rade, pl_eqt, pl_orbper.          *)

RawRow(n, h, y, r, t, p) ==
    [pl_name |-> n, hostname |-> h, disc_year |-> y,
     pl_rade |-> r, pl_eqt |-> t, pl_orbper |-> p]

EmptyDF == <<>>

\* DataFrame.empty
IsEmpty(df) == Len(df) = 0

\* the loop over numeric_columns
CoerceRow(r) ==
    [r EXCEPT !.pl_orbper = ToNumeric(@), !.pl_rade = ToNumeric(@),
              !.pl_eqt = ToNumeric(@), !.disc_year = ToNumeric(@)]

CoerceNumeric(df) == [i \in 1..Len(df) |-> CoerceRow(df[i])]

AllMissing(r) ==
    /\ IsNone(r.pl_name) /\ IsNone(r.hostname)
    /\ IsNaN(r.disc_year) /\ IsNaN(r.pl_rade) /\ IsNaN(r.pl_eqt) /\ IsNaN(r.pl_orbper)

\* df.dropna(how='all')
DropAllMissing(df) == SelectSeq(df, LAMBDA r : ~AllMissing(r))

\* df.dropna(subset=['pl_name'])
DropMissingName(df) == SelectSeq(df, LAMBDA r : ~IsNone(r.pl_name))

RECURSIVE KeepFirst(_, _)
\* the rows of df whose pl_name is not in `seen` and not in an earlier row
KeepFirst(df, seen) ==
    IF df = <<>>
    THEN <<>>
    ELSE IF Head(df).pl_name \in seen
         THEN KeepFirst(Tail(df), seen)
         ELSE <<Head(df)>> \o KeepFirst(Tail(df), seen \cup {Head(df).pl_name})

RECURSIVE KeepLast(_)
KeepLast(df) ==
    IF df = <<>>
    THEN <<>>
    ELSE IF \E i \in 2..Len(df) : df[i].pl_name = Head(df).pl_name
         THEN KeepLast(Tail(df))
         ELSE <<Head(df)>> \o KeepLast(Tail(df))

\* as DropDuplicates with keep='last'
DropDuplicatesKeepLast(df) == KeepLast(df)

\* df.drop_duplicates(subset=['pl_name'], keep='first')
DropDuplicates(df) == KeepFirst(df, {})

\* the derived columns
AddDerived(r) ==
    [pl_name |-> r.pl_name, hostname |-> r.hostname, disc_year |-> r.disc_year,
     pl_rade |-> r.pl_rade, pl_eqt |-> r.pl_eqt, pl_orbper |-> r.pl_orbper,
     habitability_score |-> calculate_habitability_score(r),
     planet_type |-> classify_planet_type(r),
     discovery_era |-> Cut(r.disc_year, EraBins, EraLabels)]

clean_exoplanet_data(df) ==
    IF IsEmpty(df)
    THEN df
    ELSE LET kept == DropDuplicates(DropMissingName(DropAllMissing(CoerceNumeric(df))))
         IN  [i \in 1..Len(kept) |-> AddDerived(kept[i])]

---------------------------------------------------------------------------
(* data_extraction.clean_exoplanet_data                                     *)

\* df.dropna(subset=["pl_rade", "pl_eqt", "pl_orbper"])
DropMissingCritical(df) ==
    SelectSeq(df, LAMBDA r : ~(IsNaN(r.pl_rade) \/ IsNaN(r.pl_eqt) \/ IsNaN(r.pl_orbper)))

\* df["disc_year"] = pd.to_numeric(df["disc_year"], errors="coerce")
CoerceYear(df) == [i \in 1..Len(df) |-> [df[i] EXCEPT !.disc_year = ToNumeric(@)]]

\* the loop over numeric_cols
CoerceCritical(df) ==
    [i \in 1..Len(df) |->
        [df[i] EXCEPT !.pl_rade = ToNumeric(@), !.pl_eqt = ToNumeric(@),
                      !.pl_orbper = ToNumeric(@)]]

extraction_clean_exoplanet_data(df) ==
    CoerceCritical(DropMissingCritical(CoerceYear(DropDuplicates(df))))

---------------------------------------------------------------------------
(* data_fetcher.save_to_csv and the CSV text: a number is written as its    *)
(* digits, a NaN or None as an empty field.                                 *)

EmptyField == [k |-> "empty", v |-> 0]

CsvNumber(c) == IF c.k = "num" THEN NumStr(c.v) ELSE EmptyField

CsvText(s) == IF IsNone(s) THEN "" ELSE s

\* DataFrame.to_csv(index=False), row by row
ToCsv(df) ==
    [i \in 1..Len(df) |->
        [pl_name |-> CsvText(df[i].pl_name), hostname |-> CsvText(df[i].hostname),
         disc_year |-> CsvNumber(df[i].disc_year), pl_rade |-> CsvNumber(df[i].pl_rade),
         pl_eqt |-> CsvNumber(df[i].pl_eqt), pl_orbper |-> CsvNumber(df[i].pl_orbper),
         habitability_score |-> NumStr(df[i].habitability_score),
         planet_type |-> CsvText(df[i].planet_type),
         discovery_era |-> CsvText(df[i].discovery_era)]]

\* exoplanet_data.csv: missing, or present with its rows
AbsentFile == [exists |-> FALSE, rows |-> <<>>]

File(rows) == [exists |-> TRUE, rows |-> rows]

\* what the file holds after save_to_csv(df) when it held `file` before
save_to_csv(df, file) == IF IsEmpty(df) THEN file ELSE File(ToCsv(df))

---------------------------------------------------------------------------
(* data_fetcher.fetch_exoplanet_data: the try block raises on a timeout,    *)
(* an error status, a connection failure, an undecodable body or a body     *)
(* that is no table; the except clauses decide what is caught.              *)

Raised(resp) ==
    CASE resp.status = "ok" -> "none"
      [] resp.status = "timeout" -> "Timeout"
      [] resp.status = "http_error" -> "HTTPError"
      [] resp.status = "connection_error" -> "ConnectionError"
      [] resp.status = "bad_json" -> "JSONDecodeError"
      [] resp.status = "not_a_table" -> "ValueError"

\* as Caught without the except Exception clause
CaughtTimeoutOnly(exc) == exc = "Timeout"

\* except requests.exceptions.Timeout / except Exception
Caught(exc) == exc = "Timeout" \/ exc \in {"HTTPError", "ConnectionError", "JSONDecodeError", "ValueError"}

\* the table fetch_exoplanet_data returns when it returns
fetch_exoplanet_data(resp) == IF Raised(resp) = "none" THEN resp.body ELSE EmptyDF

---------------------------------------------------------------------------
(* database_setup.py.  A table is the sequence of its rows in insertion     *)
(* order.  NULL is None in a TEXT column and Null in a numeric column.      *)

Null == [k |-> "null", v |-> 0]

\* pd.read_csv: an empty field is NaN, digits are a number
ReadNumber(c) ==
    CASE c.k = "numstr" -> Num(c.v)
      [] c.k = "empty" -> NaN
      [] OTHER -> c

ReadText(s) == IF s = "" THEN None ELSE s

ReadCsv(file) ==
    [i \in 1..Len(file) |->
        [pl_name |-> ReadText(file[i].pl_name), hostname |-> ReadText(file[i].hostname),
         disc_year |-> ReadNumber(file[i].disc_year), pl_rade |-> ReadNumber(file[i].pl_rade),
         pl_eqt |-> ReadNumber(file[i].pl_eqt), pl_orbper |-> ReadNumber(file[i].pl_orbper),
         habitability_score |-> ReadNumber(file[i].habitability_score),
         planet_type |-> ReadText(file[i].planet_type),
         discovery_era |-> ReadText(file[i].discovery_era)]]

\* row.get(col) if pd.notna(row.get(col)) else None
SqlNumber(c) == IF IsNaN(c) THEN Null ELSE c

\* the values bound to one INSERT INTO planets
PlanetValues(r) ==
    [pl_name |-> r.pl_name, hostname |-> r.hostname, disc_year |-> SqlNumber(r.disc_year),
     pl_rade |-> SqlNumber(r.pl_rade), pl_eqt |-> SqlNumber(r.pl_eqt),
     pl_orbper |-> SqlNumber(r.pl_orbper),
     habitability_score |-> SqlNumber(r.habitability_score),
     planet_type |-> r.planet_type, discovery_era |-> r.discovery_era]

\* as PlanetConflict without the UNIQUE constraint
PlanetConflictNotNullOnly(table, name) == IsNone(name)

\* pl_name TEXT UNIQUE NOT NULL: would inserting `name` violate a constraint
PlanetConflict(table, name) ==
    IsNone(name) \/ \E i \in 1..Len(table) : table[i].pl_name = name

\* as InsertOrIgnorePlanet with INSERT OR REPLACE
InsertOrReplacePlanet(table, rec) ==
    IF IsNone(rec.pl_name)
    THEN table
    ELSE Append(SelectSeq(table, LAMBDA t : t.pl_name # rec.pl_name), rec)

\* INSERT OR IGNORE INTO planets: the table after the statement
InsertOrIgnorePlanet(table, rec) ==
    IF PlanetConflict(table, rec.pl_name) THEN table ELSE Append(table, rec)

\* cursor.rowcount after INSERT OR IGNORE INTO planets
RowCount(table, rec) == IF PlanetConflict(table, rec.pl_name) THEN 0 ELSE 1

\* the table and the two counters before the loop
LoopStart(table) == [table |-> table, inserted |-> 0, skipped |-> 0]

RECURSIVE InsertPlanetsAbortOnError(_, _, _, _)
\* as InsertPlanets with the loop left at the first exception
InsertPlanetsAbortOnError(acc, df, i, failing) ==
    IF i > Len(df) \/ i = failing
    THEN acc
    ELSE InsertPlanetsAbortOnError(
             [table |-> InsertOrIgnorePlanet(acc.table, PlanetValues(df[i])),
              inserted |-> acc.inserted + RowCount(acc.table, PlanetValues(df[i])),
              skipped |-> acc.skipped + 1 - RowCount(acc.table, PlanetValues(df[i]))],
             df, i + 1, failing)

RECURSIVE InsertPlanets(_, _, _, _)
\* the loop over df.iterrows() from row i on; cursor.execute raises on row
\* `failing` (0: on no row), which the except clause counts as skipped
InsertPlanets(acc, df, i, failing) ==
    IF i > Len(df)
    THEN acc
    ELSE IF i = failing
         THEN InsertPlanets([acc EXCEPT !.skipped = @ + 1], df, i + 1, failing)
         ELSE IF RowCount(acc.table, PlanetValues(df[i])) > 0
              THEN InsertPlanets(
                       [acc EXCEPT !.table = InsertOrIgnorePlanet(@, PlanetValues(df[i])),
                                   !.inserted = @ + 1],
                       df, i + 1, failing)
              ELSE InsertPlanets(
                       [acc EXCEPT !.table = InsertOrIgnorePlanet(@, PlanetValues(df[i])),
                                   !.skipped = @ + 1],
                       df, i + 1, failing)

\* group keys in groupby's sorted order
HostOrder == <<"H1", "H2">>

\* 'pl_name': 'count' within the group of hostname h
GroupCount(df, h) ==
    Len(SelectSeq(df, LAMBDA r : r.hostname = h /\ ~IsNone(r.pl_name)))

\* df.groupby('hostname'): rows with a missing hostname form no group
Groups(df) ==
    SelectSeq(HostOrder, LAMBDA h : \E i \in 1..Len(df) : df[i].hostname = h)

\* hostname TEXT UNIQUE NOT NULL with INSERT OR REPLACE: the conflicting
\* row is deleted and the new row inserted
InsertOrReplace(table, rec) ==
    Append(SelectSeq(table, LAMBDA t : t.hostname # rec.hostname), rec)

RECURSIVE InsertStars(_, _, _)
InsertStars(table, df, hosts) ==
    IF hosts = <<>>
    THEN table
    ELSE InsertStars(
             InsertOrReplace(table, [hostname |-> Head(hosts),
                                     planet_count |-> GroupCount(df, Head(hosts))]),
             df, Tail(hosts))

RECURSIVE InsertSystems(_, _)
InsertSystems(table, hosts) ==
    IF hosts = <<>>
    THEN table
    ELSE InsertSystems(InsertOrReplace(table, [hostname |-> Head(hosts)]), Tail(hosts))

\* verify_database: SELECT MIN(disc_year), MAX(disc_year) ... WHERE disc_year
\* IS NOT NULL gives (None, None) when no row has a year, and int(None) raises
VerifyRaises(table) == \A i \in 1..Len(table) : table[i].disc_year = Null

---------------------------------------------------------------------------
(* App.show_explorer: the statement is assembled from the widget values     *)
(* and handed to load_data_cached, which calls pd.read_sql_query(query,     *)
(* conn) with no parameters.                                                *)

RECURSIVE Join(_, _)
\* sep.join(items)
Join(items, sep) ==
    IF items = <<>>
    THEN ""
    ELSE IF Len(items) = 1
         THEN Head(items)
         ELSE Head(items) \o sep \o Join(Tail(items), sep)

\* str() of a float held in hundredths: 50 is "0.5", 2500 is "25.0"
FormatFloat(x) ==
    ToString(x \div 100) \o "." \o
        (IF x % 10 = 0
         THEN ToString((x % 100) \div 10)
         ELSE ToString((x % 100) \div 10) \o ToString(x % 10))

BaseQuery == "SELECT ... FROM planets WHERE 1=1"

ResultLimit == 1000

OrderAndLimit ==
    " ORDER BY disc_year DESC, habitability_score DESC LIMIT " \o ToString(ResultLimit)

Conditions(f) ==
    (IF f.selected_methods # <<>>
     THEN <<"discoverymethod IN ('" \o Join(f.selected_methods, "','") \o "')">>
     ELSE <<>>)
    \o <<"disc_year BETWEEN " \o ToString(f.year_range[1]) \o " AND "
            \o ToString(f.year_range[2])>>
    \o <<"pl_rade BETWEEN " \o FormatFloat(f.radius_range[1]) \o " AND "
            \o FormatFloat(f.radius_range[2])>>
    \o <<"pl_eqt BETWEEN " \o ToString(f.temp_range[1]) \o " AND "
            \o ToString(f.temp_range[2])>>
    \o (IF f.selected_types # <<>>
        THEN <<"planet_type IN ('" \o Join(f.selected_types, "','") \o "')">>
        ELSE <<>>)
    \o <<"habitability_score >= " \o ToString(f.min_habitability)>>

\* the query string show_explorer builds
ExplorerQuery(f) ==
    BaseQuery \o " AND " \o Join(Conditions(f), " AND ") \o OrderAndLimit

\* the params argument of pd.read_sql_query in load_data_cached: none
ExplorerParams(f) == <<>>

\* as Between with both bounds left out
BetweenExclusive(c, lo, hi) == c.k = "num" /\ lo < c.v /\ c.v < hi

\* SQLite's c BETWEEN lo AND hi: c >= lo AND c <= hi, never true of NULL
Between(c, lo, hi) == c.k = "num" /\ lo <= c.v /\ c.v <= hi

\* SQLite's s IN ('a','b'): never true of NULL
InList(s, items) == ~IsNone(s) /\ \E k \in 1..Len(items) : items[k] = s

\* SQLite's c >= x: never true of NULL
AtLeast(c, x) == c.k = "num" /\ c.v >= x

\* the WHERE clause of ExplorerQuery(f) on the planets row p: the conditions
\* of Conditions(f), in its order, joined by AND
Satisfies(f, p) ==
    /\ f.selected_methods # <<>> => InList(p.discoverymethod, f.selected_methods)
    /\ Between(p.disc_year, f.year_range[1], f.year_range[2])
    /\ Between(p.pl_rade, f.radius_range[1], f.radius_range[2])
    /\ Between(p.pl_eqt, f.temp_range[1], f.temp_range[2])
    /\ f.selected_types # <<>> => InList(p.planet_type, f.selected_types)
    /\ AtLeast(p.habitability_score, f.min_habitability)

\* ORDER BY disc_year DESC, habitability_score DESC allows p before q
MayPrecede(p, q) ==
    \/ p.disc_year.v > q.disc_year.v
    \/ p.disc_year.v = q.disc_year.v /\ p.habitability_score.v >= q.habitability_score.v

\* LIMIT n
Limit(rows, n) == IF Len(rows) <= n THEN rows ELSE SubSeq(rows, 1, n)

RECURSIVE Orders(_, _)
\* every order of the rows `hits` of the table that ORDER BY allows: a row
\* no other row must precede comes first; rows that tie come in either order
Orders(table, hits) ==
    IF hits = {}
    THEN {<<>>}
    ELSE UNION {{<<table[i]>> \o rest : rest \in Orders(table, hits \ {i})} :
                   i \in {h \in hits : \A j \in hits : MayPrecede(table[h], table[j])}}

\* every answer SQLite may give to ExplorerQuery(f) on the table: the rows
\* that satisfy the WHERE clause, in an order ORDER BY allows, cut at the limit
ExplorerResults(f, table) ==
    {Limit(rows, ResultLimit) :
        rows \in Orders(table, {i \in 1..Len(table) : Satisfies(f, table[i])})}

---------------------------------------------------------------------------
(* Inputs.                                                                  *)

MaxRows == 2

MaxCsvRows == 2

\* every table of at most n rows drawn from `rows`
Tables(rows, n) == UNION {[1..k -> rows] : k \in 0..n}

PlanetNames == {None, "Kepler-22 b", "Proxima Cen b"}

\* a row with nothing in it
BlankRow == RawRow(None, None, NaN, NaN, NaN, NaN)

\* rows for tables of several rows: every score, duplicates, missing names
SmallRows ==
    {RawRow(n, "H1", Num(2015), r, t, p) :
        n \in PlanetNames, r \in {Num(100), Text},
        t \in {Num(300), NaN}, p \in {NumStr(365), NaN}} \cup {BlankRow}

RadiusCells ==
    {NaN, Text, NumStr(150)} \cup
    {Num(x) : x \in {0, 49, 50, 124, 125, 199, 200, 201, 399, 400, 999, 1000, 2500}}

TemperatureCells == {NaN, Text} \cup {Num(x) : x \in {199, 200, 350, 351}}

PeriodCells == {NaN, NumStr(365)} \cup {Num(x) : x \in {199, 200, 500, 501}}

\* one-row tables over the thresholds of the score and of the classifier
BoundaryRows ==
    {RawRow("Kepler-22 b", "H1", Num(2015), r, t, p) :
        r \in RadiusCells, t \in TemperatureCells, p \in PeriodCells}

YearCells ==
    {NaN, Text, NumStr(2000)} \cup
    {Num(x) : x \in {1995, 1999, 2000, 2001, 2009, 2010, 2011, 2015, 2016,
                     2019, 2020, 2021, 2025, 2030, 2031}}

\* one-row tables over the edges of the discovery_era bins
EraRows ==
    {RawRow("Kepler-22 b", "H1", y, Num(100), Num(300), NaN) : y \in YearCells}

FailureStatuses == {"timeout", "http_error", "connection_error", "bad_json", "not_a_table"}

Responses ==
    {[status |-> s, body |-> <<>>] : s \in FailureStatuses}
    \cup {[status |-> "ok", body |-> b] : b \in Tables(SmallRows, MaxRows)}
    \cup {[status |-> "ok", body |-> <<r>>] : r \in BoundaryRows \cup EraRows}

\* a file left by an earlier run of the fetcher
OldFile ==
    File(ToCsv(clean_exoplanet_data(
        <<RawRow("Proxima Cen b", "H2", Num(2016), Num(103), Num(234), Num(11))>>)))

\* inputs of data_extraction.clean_exoplanet_data
ExtractionRows ==
    {RawRow(n, "H1", Num(2015), r, t, p) :
        n \in PlanetNames, r \in {Num(100), NumStr(150), Text, NaN},
        t \in {Num(300), NaN}, p \in {Num(365), Text}}

\* one line of a CSV file with the columns the fetcher writes
CsvRow(n, h, y) ==
    [pl_name |-> n, hostname |-> h, disc_year |-> y,
     pl_rade |-> NumStr(100), pl_eqt |-> NumStr(300), pl_orbper |-> NumStr(365),
     habitability_score |-> NumStr(100), planet_type |-> "Rocky (Earth-like)",
     discovery_era |-> IF y.k = "numstr" THEN "2010-2015" ELSE ""]

CsvRows ==
    {CsvRow("a", "H1", NumStr(2015)), CsvRow("a", "H2", EmptyField),
     CsvRow("b", "H1", EmptyField), CsvRow("b", "", NumStr(2015)),
     CsvRow("", "H2", NumStr(2015))}

CsvFiles == {File(rows) : rows \in Tables(CsvRows, MaxCsvRows)}

DefaultFilters ==
    [selected_methods |-> <<>>, year_range |-> <<2000, 2025>>,
     radius_range |-> <<0, 2500>>, temp_range |-> <<0, 3000>>,
     selected_types |-> <<>>, min_habitability |-> 0]

FilterChoices ==
    [selected_methods : {<<>>, <<"Transit">>, <<"Transit", "Radial Velocity">>},
     year_range : {<<2000, 2025>>, <<1990, 2010>>},
     radius_range : {<<0, 2500>>, <<50, 200>>},
     temp_range : {<<0, 3000>>, <<200, 350>>},
     selected_types : {<<>>, <<"Super-Earth">>},
     min_habitability : {0, 50}]

NoQuery == ""

\* the planets row the fetcher, the CSV file and the loader make of one
\* archive row; discoverymethod is copied unchanged at every stage
ExplorerPlanet(n, m, y, r, t, p) ==
    [discoverymethod |-> m] @@
    InsertPlanets(LoopStart(<<>>),
                  ReadCsv(ToCsv(clean_exoplanet_data(<<RawRow(n, "H1", y, r, t, p)>>))),
                  1, 0).table[1]

\* planets on and next to the slider positions of FilterChoices, with and
\* without radius, temperature, year and method
ExplorerPlanets ==
    <<ExplorerPlanet("P01", "Transit", Num(2000), Num(50), Num(200), NaN),
      ExplorerPlanet("P02", "Radial Velocity", Num(2025), Num(200), Num(350), Num(365)),
      ExplorerPlanet("P03", "Transit", Num(2010), Num(150), Num(300), NaN),
      ExplorerPlanet("P04", "Transit", Num(2010), Num(150), Num(300), Num(365)),
      ExplorerPlanet("P05", "Radial Velocity", Num(2010), Num(160), Num(310), NaN),
      ExplorerPlanet("P06", "Imaging", Num(1990), Num(2500), Num(3000), NaN),
      ExplorerPlanet("P07", "Transit", Num(1999), Num(49), Num(199), Num(365)),
      ExplorerPlanet("P08", "Transit", Num(2011), Num(201), Num(351), Num(365)),
      ExplorerPlanet("P09", "Transit", Num(2015), NaN, Num(300), Num(365)),
      ExplorerPlanet("P10", "Transit", Num(2015), Num(150), NaN, Num(365)),
      ExplorerPlanet("P11", "Transit", NaN, Num(150), Num(300), Num(365)),
      ExplorerPlanet("P12", None, Num(2015), Num(150), Num(300), Num(365)),
      ExplorerPlanet("P13", "Imaging", Num(2026), Num(2600), Num(3050), NaN)>>

\* the planets tables the Explorer page is rendered on: all the planets,
\* and a table loaded from a shorter file
ExplorerTables ==
    {ExplorerPlanets, [k \in 1..4 |-> ExplorerPlanets[<<9, 4, 11, 2>>[k]]]}

---------------------------------------------------------------------------
(* States in which a script or the page is not running.                     *)

FetcherIdle ==
    /\ response = [status |-> "ok", body |-> <<>>]
    /\ pc = "idle"
    /\ raw_df = EmptyDF
    /\ clean_df = EmptyDF

DatabaseIdle ==
    /\ csv_loads = 0
    /\ db_pc = "idle"
    /\ planets_inserted = 0
    /\ planets_skipped = 0
    /\ insert_failed = 0
    /\ planets = <<>>
    /\ stars = <<>>
    /\ systems = <<>>

ExplorerIdle ==
    /\ filters = DefaultFilters
    /\ sql_text = NoQuery
    /\ sql_params = <<>>
    /\ prev_sql = NoQuery
    /\ results = <<>>

---------------------------------------------------------------------------
(* data_fetcher.main                                                        *)

Init ==
    /\ response \in Responses
    /\ pc = "start"
    /\ raw_df = EmptyDF
    /\ clean_df = EmptyDF
    /\ csv_file \in {AbsentFile, OldFile}
    /\ DatabaseIdle
    /\ ExplorerIdle

\* raw_df = fetch_exoplanet_data()
FetchExoplanetData ==
    /\ pc = "start"
    /\ IF Raised(response) # "none" /\ ~Caught(Raised(response))
       THEN pc' = "crashed" /\ raw_df' = raw_df
       ELSE pc' = "fetched" /\ raw_df' = fetch_exoplanet_data(response)
    /\ UNCHANGED <<response, clean_df, csv_file, dbVars, explorerVars>>

\* if raw_df.empty: ... return
MainFetchFailed ==
    /\ pc = "fetched"
    /\ IsEmpty(raw_df)
    /\ pc' = "fetch_failed"
    /\ UNCHANGED <<response, raw_df, clean_df, csv_file, dbVars, explorerVars>>

\* clean_df = clean_exoplanet_data(raw_df)
MainClean ==
    /\ pc = "fetched"
    /\ ~IsEmpty(raw_df)
    /\ clean_df' = clean_exoplanet_data(raw_df)
    /\ pc' = "cleaned"
    /\ UNCHANGED <<response, raw_df, csv_file, dbVars, explorerVars>>

\* if clean_df.empty: ... return
MainCleanFailed ==
    /\ pc = "cleaned"
    /\ IsEmpty(clean_df)
    /\ pc' = "clean_failed"
    /\ UNCHANGED <<response, raw_df, clean_df, csv_file, dbVars, explorerVars>>

\* save_to_csv(clean_df) and the summary
MainSave ==
    /\ pc = "cleaned"
    /\ ~IsEmpty(clean_df)
    /\ csv_file' = save_to_csv(clean_df, csv_file)
    /\ pc' = "saved"
    /\ UNCHANGED <<response, raw_df, clean_df, dbVars, explorerVars>>

Next ==
    \/ FetchExoplanetData
    \/ MainFetchFailed
    \/ MainClean
    \/ MainCleanFailed
    \/ MainSave

Spec == Init /\ [][Next]_vars

---------------------------------------------------------------------------
(* A call of data_extraction.clean_exoplanet_data                           *)

InitExtraction ==
    /\ response = [status |-> "ok", body |-> <<>>]
    /\ pc = "extract"
    /\ raw_df \in Tables(ExtractionRows, MaxRows)
    /\ clean_df = EmptyDF
    /\ csv_file = AbsentFile
    /\ DatabaseIdle
    /\ ExplorerIdle

ExtractionClean ==
    /\ pc = "extract"
    /\ clean_df' = extraction_clean_exoplanet_data(raw_df)
    /\ pc' = "extracted"
    /\ UNCHANGED <<response, raw_df, csv_file, dbVars, explorerVars>>

NextExtraction == ExtractionClean

SpecExtraction == InitExtraction /\ [][NextExtraction]_vars

---------------------------------------------------------------------------
(* database_setup.main, run any number of times against the same           *)
(* exoplanets.db, with the CSV file rewritten between runs.                 *)

\* CREATE TABLE IF NOT EXISTS: an existing table keeps its rows
CreateTable(table) == table

InitDatabase ==
    /\ FetcherIdle
    /\ csv_file \in CsvFiles
    /\ csv_loads = 0
    /\ db_pc = "start"
    /\ planets_inserted = 0
    /\ planets_skipped = 0
    /\ insert_failed = 0
    /\ planets = <<>>
    /\ stars = <<>>
    /\ systems = <<>>
    /\ ExplorerIdle

\* the file is replaced (by the fetcher or by hand) while no setup runs
WriteCsv ==
    /\ db_pc = "start"
    /\ \E f \in CsvFiles : f # csv_file /\ csv_file' = f
    /\ csv_loads' = 0
    /\ UNCHANGED <<fetcherVars, db_pc, counters, planets, stars, systems, explorerVars>>

\* conn = create_database()
CreateDatabase ==
    /\ db_pc = "start"
    /\ planets' = CreateTable(planets)
    /\ stars' = CreateTable(stars)
    /\ systems' = CreateTable(systems)
    /\ db_pc' = "created"
    /\ UNCHANGED <<fetcherVars, csv_file, csv_loads, counters, explorerVars>>

\* insert_data_from_csv: pd.read_csv and the planets loop
LoadPlanets ==
    /\ db_pc = "created"
    /\ IF csv_file.exists
       THEN \E failing \in 0..Len(csv_file.rows) :
              LET out == InsertPlanets(LoopStart(planets), ReadCsv(csv_file.rows), 1, failing)
              IN  /\ planets' = out.table
                  /\ planets_inserted' = out.inserted
                  /\ planets_skipped' = out.skipped
                  /\ insert_failed' = failing
                  /\ csv_loads' = IF failing # 0 THEN csv_loads
                                  ELSE IF csv_loads < 2 THEN csv_loads + 1 ELSE 2
                  /\ db_pc' = "planets_loaded"
       ELSE /\ db_pc' = "crashed"
            /\ UNCHANGED <<planets, csv_loads, counters>>
    /\ UNCHANGED <<fetcherVars, csv_file, stars, systems, explorerVars>>

\* insert_data_from_csv: the stars loop
LoadStars ==
    /\ db_pc = "planets_loaded"
    /\ stars' = InsertStars(stars, ReadCsv(csv_file.rows), Groups(ReadCsv(csv_file.rows)))
    /\ db_pc' = "stars_loaded"
    /\ UNCHANGED <<fetcherVars, csv_file, csv_loads, counters, planets, systems, explorerVars>>

\* insert_data_from_csv: the systems loop
LoadSystems ==
    /\ db_pc = "stars_loaded"
    /\ systems' = InsertSystems(systems, Groups(ReadCsv(csv_file.rows)))
    /\ db_pc' = "systems_loaded"
    /\ UNCHANGED <<fetcherVars, csv_file, csv_loads, counters, planets, stars, explorerVars>>

\* insert_data_from_csv: conn.commit()
Commit ==
    /\ db_pc = "systems_loaded"
    /\ db_pc' = "committed"
    /\ planets_inserted' = 0
    /\ planets_skipped' = 0
    /\ insert_failed' = 0
    /\ UNCHANGED <<fetcherVars, csv_file, csv_loads, planets, stars, systems, explorerVars>>

\* verify_database(conn)
VerifyDatabase ==
    /\ db_pc = "committed"
    /\ db_pc' = IF VerifyRaises(planets) THEN "crashed" ELSE "verified"
    /\ UNCHANGED <<fetcherVars, csv_file, csv_loads, counters, planets, stars, systems, explorerVars>>

\* conn.close() and the closing banner
Close ==
    /\ db_pc = "verified"
    /\ db_pc' = "complete"
    /\ UNCHANGED <<fetcherVars, csv_file, csv_loads, counters, planets, stars, systems, explorerVars>>

\* the script is started again
RunAgain ==
    /\ db_pc \in {"complete", "crashed"}
    /\ db_pc' = "start"
    /\ UNCHANGED <<fetcherVars, csv_file, csv_loads, counters, planets, stars, systems, explorerVars>>

NextDatabase ==
    \/ WriteCsv
    \/ CreateDatabase
    \/ LoadPlanets
    \/ LoadStars
    \/ LoadSystems
    \/ Commit
    \/ VerifyDatabase
    \/ Close
    \/ RunAgain

SpecDatabase == InitDatabase /\ [][NextDatabase]_vars

---------------------------------------------------------------------------
(* The Explorer page: Streamlit runs show_explorer again whenever a widget  *)
(* changes.                                                                 *)

InitExplorer ==
    /\ FetcherIdle
    /\ csv_file = AbsentFile
    /\ DatabaseIdle
    /\ ExplorerIdle

ShowExplorer ==
    /\ \E f \in FilterChoices :
          /\ filters' = f
          /\ sql_text' = ExplorerQuery(f)
          /\ sql_params' = ExplorerParams(f)
          /\ results' \in ExplorerResults(f, planets)
    /\ prev_sql' = sql_text
    /\ UNCHANGED <<fetcherVars, csv_file, dbVars>>

NextExplorer == ShowExplorer

SpecExplorer == InitExplorer /\ [][NextExplorer]_vars

\* the Explorer page on a database database_setup has filled
InitExplorerData ==
    /\ FetcherIdle
    /\ csv_file = AbsentFile
    /\ csv_loads = 0
    /\ db_pc = "idle"
    /\ planets_inserted = 0
    /\ planets_skipped = 0
    /\ insert_failed = 0
    /\ planets \in ExplorerTables
    /\ stars = <<>>
    /\ systems = <<>>
    /\ ExplorerIdle

SpecExplorerData == InitExplorerData /\ [][NextExplorer]_vars

---------------------------------------------------------------------------
(* Properties of the fetcher (specification Spec).                          *)

\* main has run clean_exoplanet_data
Cleaned == pc \in {"cleaned", "clean_failed", "saved"}

\* 1 if the cell is a number within lo..hi, bounds included; 0 otherwise,
\* also when the cell is missing
Within(c, lo, hi) == IF c.k = "num" /\ lo <= c.v /\ c.v <= hi THEN 1 ELSE 0

\* C1: every cleaned row's habitability_score is exactly
\* 35*[0.5 <= pl_rade <= 2.0] + 40*[200 <= pl_eqt <= 350]
\* + 25*[200 <= pl_orbper <= 500], bounds inclusive, a missing value giving 0
\* for its criterion.
C1_ScoreFormula ==
    Cleaned =>
        \A i \in 1..Len(clean_df) :
            clean_df[i].habitability_score =
                35 * Within(clean_df[i].pl_rade, 50, 200)
                + 40 * Within(clean_df[i].pl_eqt, 200, 350)
                + 25 * Within(clean_df[i].pl_orbper, 200, 500)

\* a planet on the upper radius bound and the upper period bound, with no
\* temperature, has been scored 60
C1_Witness ==
    /\ pc = "cleaned"
    /\ \E i \in 1..Len(clean_df) :
          /\ clean_df[i].pl_rade = Num(200)
          /\ clean_df[i].pl_eqt = NaN
          /\ clean_df[i].pl_orbper = Num(500)
          /\ clean_df[i].habitability_score = 60

ScoreValues == {0, 25, 35, 40, 60, 65, 75, 100}

\* C2: every row clean_exoplanet_data produces, and every row of the file
\* written from it, has a habitability_score that is one of 0, 25, 35, 40,
\* 60, 65, 75, 100 (so within 0..100) and is never missing.
C2_ScoreRange ==
    /\ Cleaned =>
          \A i \in 1..Len(clean_df) : clean_df[i].habitability_score \in ScoreValues
    /\ \A i \in 1..Len(csv_file.rows) :
          /\ csv_file.rows[i].habitability_score.k = "numstr"
          /\ csv_file.rows[i].habitability_score.v \in ScoreValues

\* a saved table holding a planet scored 100 and a planet scored 0
C2_Witness ==
    /\ pc = "saved"
    /\ Len(csv_file.rows) = 2
    /\ \E i, j \in 1..Len(clean_df) :
          clean_df[i].habitability_score = 100 /\ clean_df[j].habitability_score = 0

\* the type the radius ranges give
TypeOfRadius(c) ==
    CASE c.k # "num" -> "Unknown"
      [] c.k = "num" /\ c.v < 125 -> "Rocky (Earth-like)"
      [] c.k = "num" /\ 125 <= c.v /\ c.v < 200 -> "Super-Earth"
      [] c.k = "num" /\ 200 <= c.v /\ c.v < 400 -> "Mini-Neptune"
      [] c.k = "num" /\ 400 <= c.v /\ c.v < 1000 -> "Neptune-like"
      [] c.k = "num" /\ 1000 <= c.v -> "Jupiter-like"

\* every order in which the five rules can be applied
RuleOrders ==
    {o \in [1..Len(CodeOrder) -> 1..Len(CodeOrder)] :
        \A i, j \in 1..Len(CodeOrder) : i # j => o[i] # o[j]}

\* C3: every cleaned planet has the one type its radius range gives
\* (Rocky < 1.25 <= Super-Earth < 2.0 <= Mini-Neptune < 4.0 <= Neptune-like
\* < 10.0 <= Jupiter-like), 'Unknown' exactly when the radius is missing;
\* exactly one rule matches a radius that is present, and applying the five
\* rules in any order gives the same type.
C3_PlanetType ==
    Cleaned =>
        \A i \in 1..Len(clean_df) :
            LET c == clean_df[i].pl_rade IN
            /\ clean_df[i].planet_type = TypeOfRadius(c)
            /\ (clean_df[i].planet_type = "Unknown") <=> IsNaN(c)
            /\ Cardinality({k \in 1..Len(CodeOrder) : RuleMask(k, c)})
                  = IF IsNaN(c) THEN 0 ELSE 1
            /\ \A o \in RuleOrders : ApplyRules(o, "Unknown", c) = clean_df[i].planet_type

\* a planet of exactly 2.0 Earth radii has been classified Mini-Neptune
C3_Witness ==
    /\ pc = "cleaned"
    /\ \E i \in 1..Len(clean_df) :
          clean_df[i].pl_rade = Num(200) /\ clean_df[i].planet_type = "Mini-Neptune"

\* the columns of a cleaned row that come from the input
InputColumns(r) ==
    RawRow(r.pl_name, r.hostname, r.disc_year, r.pl_rade, r.pl_eqt, r.pl_orbper)

\* the first row of df named n
FirstNamed(df, n) ==
    df[CHOOSE i \in 1..Len(df) :
          df[i].pl_name = n /\ \A j \in 1..(i - 1) : df[j].pl_name # n]

\* C4: after clean_exoplanet_data no two rows share a pl_name and no row
\* lacks one; each planet name of the input has exactly one output row,
\* which is the first input row of that name with its numeric columns
\* coerced, and nothing of a later row of that name.
C4_FirstRowKept ==
    Cleaned =>
        /\ \A i, j \in 1..Len(clean_df) :
              i # j => clean_df[i].pl_name # clean_df[j].pl_name
        /\ \A i \in 1..Len(clean_df) :
              /\ ~IsNone(clean_df[i].pl_name)
              /\ \E j \in 1..Len(raw_df) : raw_df[j].pl_name = clean_df[i].pl_name
              /\ InputColumns(clean_df[i])
                    = CoerceRow(FirstNamed(raw_df, clean_df[i].pl_name))
        /\ \A j \in 1..Len(raw_df) :
              ~IsNone(raw_df[j].pl_name) =>
                  \E i \in 1..Len(clean_df) : clean_df[i].pl_name = raw_df[j].pl_name

\* two input rows of one name and different values were reduced to one row
C4_Witness ==
    /\ pc = "cleaned"
    /\ Len(raw_df) = 2
    /\ raw_df[1].pl_name = raw_df[2].pl_name
    /\ raw_df[1] # raw_df[2]
    /\ Len(clean_df) = 1

\* C7: when the request fails (timeout, error status, connection failure,
\* undecodable body) no exception escapes, fetch_exoplanet_data returns an
\* empty table, main stops without cleaning and without creating or
\* overwriting exoplanet_data.csv, and save_to_csv of an empty table leaves
\* the file as it is.
C7_FailedFetch ==
    [][response.status # "ok" =>
          /\ pc' \in {"fetched", "fetch_failed"}
          /\ raw_df' = EmptyDF
          /\ clean_df' = clean_df
          /\ csv_file' = csv_file
          /\ save_to_csv(raw_df', csv_file) = csv_file]_vars

\* main has stopped after an undecodable body, the earlier file untouched
C7_Witness ==
    /\ response.status = "bad_json"
    /\ pc = "fetch_failed"
    /\ csv_file = OldFile

---------------------------------------------------------------------------
(* Property of data_extraction (specification SpecExtraction).              *)

\* C8: after data_extraction.clean_exoplanet_data every output row has a
\* number in each of pl_rade, pl_eqt and pl_orbper, also when the input held
\* a non-numeric string there, and no two output rows share a pl_name.
C8_CriticalPresent ==
    pc = "extracted" =>
        /\ \A i \in 1..Len(clean_df) :
              /\ clean_df[i].pl_rade.k = "num"
              /\ clean_df[i].pl_eqt.k = "num"
              /\ clean_df[i].pl_orbper.k = "num"
        /\ \A i, j \in 1..Len(clean_df) :
              i # j => clean_df[i].pl_name # clean_df[j].pl_name

---------------------------------------------------------------------------
(* Properties of the database setup (specification SpecDatabase).           *)

\* C6: whatever files are loaded, and however often, planets holds at most
\* one row per pl_name, and stars and systems at most one row per hostname.
C6_UniqueKeys ==
    /\ \A i, j \in 1..Len(planets) : i # j => planets[i].pl_name # planets[j].pl_name
    /\ \A i, j \in 1..Len(stars) : i # j => stars[i].hostname # stars[j].hostname
    /\ \A i, j \in 1..Len(systems) : i # j => systems[i].hostname # systems[j].hostname

\* a file naming one planet twice has been loaded into tables that already
\* held that planet and its star
C6_Witness ==
    /\ db_pc = "committed"
    /\ Len(csv_file.rows) = 2
    /\ csv_file.rows[1].pl_name = csv_file.rows[2].pl_name
    /\ csv_file.rows[1].hostname # csv_file.rows[2].hostname
    /\ csv_loads = 2
    /\ Len(planets) = 2
    /\ Len(stars) = 2

\* the steps of database_setup.main, in order
SetupSteps ==
    {<<"start", "created">>, <<"created", "planets_loaded">>,
     <<"planets_loaded", "stars_loaded">>, <<"stars_loaded", "systems_loaded">>,
     <<"systems_loaded", "committed">>, <<"committed", "verified">>,
     <<"verified", "complete">>, <<"complete", "start">>}

\* C9: the database setup goes through create schema, load planets, load
\* stars, load systems, commit, verify, close in that order and, for every
\* CSV with the expected columns (also one in which no planet has a discovery
\* year), reaches 'Database setup complete'.
C9_SetupCompletes ==
    [][db_pc' # db_pc => <<db_pc, db_pc'>> \in SetupSteps]_vars

\* C10: loading never changes or removes a row planets already holds (a CSV
\* row whose pl_name is in the table is ignored, whatever its other values),
\* and loading a file that has been loaded before (every INSERT of that load
\* executed) leaves planets as it was.
C10_InsertOnly ==
    [][/\ Len(planets') >= Len(planets)
       /\ \A i \in 1..Len(planets) : planets'[i] = planets[i]
       /\ (db_pc = "created" /\ csv_loads >= 1) => planets' = planets]_vars

\* the same file has been loaded a second time; one of its rows names a
\* planet the table holds with another host star
C10_Witness ==
    /\ db_pc = "planets_loaded"
    /\ csv_loads = 2
    /\ \E i \in 1..Len(csv_file.rows) : \E k \in 1..Len(planets) :
          /\ csv_file.rows[i].pl_name = planets[k].pl_name
          /\ ReadText(csv_file.rows[i].hostname) # planets[k].hostname

\* insert_data_from_csv has run to its commit at least once and no load is
\* under way
AfterLoad == db_pc \in {"committed", "verified", "complete"}

\* the number of planets rows whose hostname is h
PlanetsOf(h) == Len(SelectSeq(planets, LAMBDA p : p.hostname = h))

\* C11: after any sequence of loads, every stars row's planet_count is the
\* number of planets rows with that star's hostname.
C11_PlanetCount ==
    AfterLoad =>
        \A i \in 1..Len(stars) : stars[i].planet_count = PlanetsOf(stars[i].hostname)

\* the host stars named in the planets table
PlanetHosts == {planets[i].hostname : i \in 1..Len(planets)} \ {None}

\* C12: after any sequence of loads the hostnames in stars, the hostnames in
\* systems and the non-null hostnames in planets are the same set, so the
\* number of distinct hostnames in planets is the number of stars rows.
C12_SameHosts ==
    AfterLoad =>
        /\ {stars[i].hostname : i \in 1..Len(stars)}
              = {systems[i].hostname : i \in 1..Len(systems)}
        /\ {stars[i].hostname : i \in 1..Len(stars)} = PlanetHosts
        /\ Cardinality(PlanetHosts) = Len(stars)

\* C14: every cleaned row with a known disc_year has exactly one
\* discovery_era label and the label agrees with its name: 'Pre-2000' only
\* for years before 2000, '2000s' for every year from 2000 up to 2010, '2020+'
\* for every year after 2020; a row with no disc_year has no label.
C14_EraLabels ==
    Cleaned =>
        \A i \in 1..Len(clean_df) :
            LET year == clean_df[i].disc_year
                era == clean_df[i].discovery_era
            IN  /\ IsNaN(year) => IsNone(era)
                /\ ~IsNaN(year) =>
                      /\ \E k \in 1..Len(EraLabels) : era = EraLabels[k]
                      /\ era = "Pre-2000" => year.v < 2000
                      /\ (2000 <= year.v /\ year.v <= 2010) => era = "2000s"
                      /\ year.v > 2020 => era = "2020+"

\* C13: a row whose INSERT raises, or is ignored, does not end the load:
\* every CSV row is counted exactly once (planets_inserted + planets_skipped
\* is the number of CSV rows), planets_inserted is the number of rows the
\* load added to planets, and every other row with a planet name is in the
\* table afterwards, also when it comes after the failing row.
C13_LoadCounts ==
    [][(db_pc = "created" /\ db_pc' = "planets_loaded") =>
          /\ planets_inserted' + planets_skipped' = Len(csv_file.rows)
          /\ planets_inserted' = Len(planets') - Len(planets)
          /\ \A i \in 1..Len(csv_file.rows) :
                (i # insert_failed' /\ csv_file.rows[i].pl_name # "") =>
                    \E k \in 1..Len(planets') :
                        planets'[k].pl_name = csv_file.rows[i].pl_name]_vars

\* the INSERT of the first of two rows raised, and the second row, a planet
\* the table did not hold, was inserted
C13_Witness ==
    /\ db_pc = "planets_loaded"
    /\ Len(csv_file.rows) = 2
    /\ insert_failed = 1
    /\ planets_inserted = 1
    /\ planets_skipped = 1
    /\ planets[Len(planets)].pl_name = csv_file.rows[2].pl_name
    /\ csv_file.rows[1].pl_name # csv_file.rows[2].pl_name

---------------------------------------------------------------------------
(* Property of the Explorer page (specification SpecExplorer).              *)

\* C5: the Explorer's statement text is the same whatever the filters are,
\* and the chosen values are passed as bound parameters.
C5_Parameterized ==
    sql_text # NoQuery =>
        /\ prev_sql # NoQuery => sql_text = prev_sql
        /\ Len(sql_params) = Len(filters.selected_methods) + Len(filters.selected_types) + 7

---------------------------------------------------------------------------
(* Property of the Explorer's result (specification SpecExplorerData).      *)

Rendered == sql_text # NoQuery

Selected(s, items) == items = <<>> \/ s \in {items[k] : k \in 1..Len(items)}

\* the planets of the table the filters f ask for
Wanted(f) ==
    {planets[i] : i \in {j \in 1..Len(planets) :
        /\ Within(planets[j].disc_year, f.year_range[1], f.year_range[2]) = 1
        /\ Within(planets[j].pl_rade, f.radius_range[1], f.radius_range[2]) = 1
        /\ Within(planets[j].pl_eqt, f.temp_range[1], f.temp_range[2]) = 1
        /\ Within(planets[j].habitability_score, f.min_habitability, 100) = 1
        /\ Selected(planets[j].discoverymethod, f.selected_methods)
        /\ Selected(planets[j].planet_type, f.selected_types)}}

====
